---- MODULE Spec2Model ----
(***************************************************************************)
(* A model of the notes bot: the note store (db.py), the model-facing      *)
(* functions (llm.py) and the bot handlers (main.py).                      *)
(*                                                                         *)
(* Text is a sequence of one-character strings, so that slicing, index,    *)
(* strip, join and JSON parsing are computed character by character.       *)
(* A Python value is a record whose field names depend on its type.        *)
(***************************************************************************)
EXTENDS Integers, Sequences, FiniteSets, TLC

\* ------------------------------------------------------------------------
\* Bounds of the model
\* ------------------------------------------------------------------------
\* longest reply enumerated exhaustively over BraceAlphabet
MaxBraceLen == 3
\* length of the longest input text (the slice text[:100] must cut it)
MaxTextLen == 103

\* ------------------------------------------------------------------------
\* Python strings
\* ------------------------------------------------------------------------
Min(a, b) == IF a < b THEN a ELSE b

\* s[a:b] with Python's 0-based, end-exclusive, clamped bounds (a, b >= 0)
Slice(s, a, b) ==
    LET lo == Min(a, Len(s)) + 1
        hi == Min(b, Len(s))
    IN  IF hi < lo THEN << >> ELSE SubSeq(s, lo, hi)

\* s[:n]
Prefix(s, n) == Slice(s, 0, n)

\* c in s
Contains(s, c) == \E i \in 1..Len(s) : s[i] = c

\* s.index(c): 0-based position of the first c (caller guarantees c in s)
index(s, c) == (CHOOSE i \in 1..Len(s) : s[i] = c /\ \A j \in 1..(i-1) : s[j] # c) - 1

\* s.rindex(c): 0-based position of the last c (caller guarantees c in s)
rindex(s, c) == (CHOOSE i \in 1..Len(s) : s[i] = c /\ \A j \in (i+1)..Len(s) : s[j] # c) - 1

DigitChar == <<"0", "1", "2", "3", "4", "5", "6", "7", "8", "9">>

Whitespace == {" ", "\n", "\t", "\r"}

RECURSIVE SkipWs(_, _)
\* first position at or after i that holds no whitespace
SkipWs(s, i) == IF i <= Len(s) /\ s[i] \in Whitespace THEN SkipWs(s, i + 1) ELSE i

RECURSIVE SkipWsBack(_, _)
\* last position at or before i that holds no whitespace
SkipWsBack(s, i) == IF i >= 1 /\ s[i] \in Whitespace THEN SkipWsBack(s, i - 1) ELSE i

\* s.strip()
strip(s) ==
    LET lo == SkipWs(s, 1)
        hi == SkipWsBack(s, Len(s))
    IN  IF hi < lo THEN << >> ELSE SubSeq(s, lo, hi)

RECURSIVE join(_, _)
\* sep.join(parts), parts a sequence of strings
join(sep, parts) ==
    IF parts = << >> THEN << >>
    ELSE IF Len(parts) = 1 THEN parts[1]
    ELSE parts[1] \o sep \o join(sep, Tail(parts))

\* ------------------------------------------------------------------------
\* Python values
\* ------------------------------------------------------------------------
PyStr(s)  == [type |-> "str", chars |-> s]
PyInt(d)  == [type |-> "int", digits |-> d]
PyBool(b) == [type |-> "bool", truth |-> b]
PyNone    == [type |-> "None"]
PyList(l) == [type |-> "list", elems |-> l]
\* a dict keeps its keys in insertion order next to the mapping
PyDict(k, m) == [type |-> "dict", keys |-> k, map |-> m]
EmptyDict == PyDict(<< >>, << >>)

\* d[key] = val on a dict
DictSet(d, key, val) ==
    IF \E i \in 1..Len(d.keys) : d.keys[i] = key
    THEN PyDict(d.keys, [i \in 1..Len(d.keys) |-> IF d.keys[i] = key THEN val ELSE d.map[i]])
    ELSE PyDict(Append(d.keys, key), Append(d.map, val))

DictHas(d, key) == \E i \in 1..Len(d.keys) : d.keys[i] = key

\* d.get(key, default)
DictGet(d, key, default) ==
    IF DictHas(d, key)
    THEN d.map[CHOOSE i \in 1..Len(d.keys) : d.keys[i] = key]
    ELSE default

\* ------------------------------------------------------------------------
\* json.loads, on the JSON grammar without escapes, fractions and exponents
\* ------------------------------------------------------------------------
Digits == {"0", "1", "2", "3", "4", "5", "6", "7", "8", "9"}
JsonFail == [ok |-> FALSE]
JsonOk(v, p) == [ok |-> TRUE, val |-> v, pos |-> p]

RECURSIVE DigitsEnd(_, _)
\* first position at or after i that holds no digit
DigitsEnd(s, i) == IF i <= Len(s) /\ s[i] \in Digits THEN DigitsEnd(s, i + 1) ELSE i

\* s has the word w at position i
HasWord(s, i, w) == i + Len(w) - 1 <= Len(s) /\ SubSeq(s, i, i + Len(w) - 1) = w

\* a string literal opening at s[i] = '"'
ParseString(s, i) ==
    LET closing == {j \in (i+1)..Len(s) : s[j] = "\""}
    IN  IF closing = {} THEN JsonFail
        ELSE LET j == CHOOSE j \in closing : \A k \in closing : j <= k
             IN  JsonOk(PyStr(SubSeq(s, i + 1, j - 1)), j + 1)

\* an integer literal at s[i]: -?(0|[1-9][0-9]*)
ParseNumber(s, i) ==
    LET d == IF s[i] = "-" THEN i + 1 ELSE i
    IN  IF d > Len(s) \/ s[d] \notin Digits THEN JsonFail
        ELSE LET e == IF s[d] = "0" THEN d + 1 ELSE DigitsEnd(s, d)
             IN  JsonOk(PyInt(SubSeq(s, i, e - 1)), e)

RECURSIVE ParseValue(_, _), ParseMembers(_, _, _), ParseElements(_, _, _)

\* the members of an object, i at the key of the next member
ParseMembers(s, i, acc) ==
    IF i > Len(s) \/ s[i] # "\"" THEN JsonFail
    ELSE LET k == ParseString(s, i)
         IN  IF ~k.ok THEN JsonFail
             ELSE LET c == SkipWs(s, k.pos)
                  IN  IF c > Len(s) \/ s[c] # ":" THEN JsonFail
                      ELSE LET v == ParseValue(s, SkipWs(s, c + 1))
                           IN  IF ~v.ok THEN JsonFail
                               ELSE LET e    == SkipWs(s, v.pos)
                                        acc2 == DictSet(acc, k.val.chars, v.val)
                                    IN  IF e > Len(s) THEN JsonFail
                                        ELSE IF s[e] = "}" THEN JsonOk(acc2, e + 1)
                                        ELSE IF s[e] = "," THEN ParseMembers(s, SkipWs(s, e + 1), acc2)
                                        ELSE JsonFail

\* the elements of an array, i at the next element
ParseElements(s, i, acc) ==
    LET v == ParseValue(s, i)
    IN  IF ~v.ok THEN JsonFail
        ELSE LET e    == SkipWs(s, v.pos)
                 acc2 == Append(acc, v.val)
             IN  IF e > Len(s) THEN JsonFail
                 ELSE IF s[e] = "]" THEN JsonOk(PyList(acc2), e + 1)
                 ELSE IF s[e] = "," THEN ParseElements(s, SkipWs(s, e + 1), acc2)
                 ELSE JsonFail

\* one JSON value starting at s[i]
ParseValue(s, i) ==
    IF i > Len(s) THEN JsonFail
    ELSE IF s[i] = "\"" THEN ParseString(s, i)
    ELSE IF s[i] = "{" THEN
        LET j == SkipWs(s, i + 1)
        IN  IF j <= Len(s) /\ s[j] = "}" THEN JsonOk(EmptyDict, j + 1)
            ELSE ParseMembers(s, j, EmptyDict)
    ELSE IF s[i] = "[" THEN
        LET j == SkipWs(s, i + 1)
        IN  IF j <= Len(s) /\ s[j] = "]" THEN JsonOk(PyList(<< >>), j + 1)
            ELSE ParseElements(s, j, << >>)
    ELSE IF s[i] = "-" \/ s[i] \in Digits THEN ParseNumber(s, i)
    ELSE IF HasWord(s, i, <<"n", "u", "l", "l">>) THEN JsonOk(PyNone, i + 4)
    ELSE IF HasWord(s, i, <<"t", "r", "u", "e">>) THEN JsonOk(PyBool(TRUE), i + 4)
    ELSE IF HasWord(s, i, <<"f", "a", "l", "s", "e">>) THEN JsonOk(PyBool(FALSE), i + 5)
    ELSE JsonFail

\* json.loads(s): one value, whitespace around it, nothing else
json_loads(s) ==
    LET v == ParseValue(s, SkipWs(s, 1))
    IN  IF ~v.ok THEN JsonFail
        ELSE IF SkipWs(s, v.pos) <= Len(s) THEN JsonFail
        ELSE [ok |-> TRUE, val |-> v.val]

\* ------------------------------------------------------------------------
\* State
\* ------------------------------------------------------------------------
VARIABLES
    notes,  \* the rows of table notes, in rowid order
    now,    \* the store's clock, the value CURRENT_TIMESTAMP yields
    req,    \* the update being handled: handler, position, local variables
    delivered, \* how many updates have been handed to a handler
    call,   \* a function called on its own: its name, its arguments and
            \* the outcome of the external model it reaches
    ret     \* what that call returned, Unbound until it returns

vars == <<notes, now, req, delivered, call, ret>>

\* a local variable that has not been assigned yet
Unbound == [type |-> "unbound"]
NoCall == [fn |-> "none"]

\* an exception message
Boom == <<"b", "o", "o", "m">>

\* ------------------------------------------------------------------------
\* llm.py: summarize_and_tag
\* ------------------------------------------------------------------------
\* summary
kSummary == <<"s", "u", "m", "m", "a", "r", "y">>
\* tags
kTags == <<"t", "a", "g", "s">>

\* the generative model either raises or returns generated text
LlmRaises(msg) == [raises |-> TRUE, message |-> msg]
LlmReturns(s) == [raises |-> FALSE, text |-> s]

\* the mutant of Fallback that forgets the [:100]
FallbackUncut(text) ==
    PyDict(<<kSummary, kTags>>, <<PyStr(text), PyList(<< >>)>>)

\* {"summary": text[:100], "tags": []}
Fallback(text) ==
    PyDict(<<kSummary, kTags>>, <<PyStr(Prefix(text, 100)), PyList(<< >>)>>)

\* summarize_and_tag(text), llm the outcome of the model call it makes
summarize_and_tag(text, llm) ==
    IF llm.raises THEN Fallback(text)
    ELSE LET content == strip(llm.text)
         IN  IF Contains(content, "{") /\ Contains(content, "}")
             THEN LET json_start == index(content, "{")
                      json_end   == rindex(content, "}") + 1
                      json_str   == Slice(content, json_start, json_end)
                      result     == json_loads(json_str)
                  IN  IF result.ok THEN result.val ELSE Fallback(text)
             ELSE Fallback(text)

\* ------------------------------------------------------------------------
\* llm.py: semantic_search
\* ------------------------------------------------------------------------
\* No notes found.
NoNotesFound ==
    <<"N", "o", " ", "n", "o", "t", "e", "s", " ", "f", "o", "u", "n",
      "d", ".">>
\* No relevant notes found for your query.
NoRelevantNotes ==
    <<"N", "o", " ", "r", "e", "l", "e", "v", "a", "n", "t", " ", "n",
      "o", "t", "e", "s", " ", "f", "o", "u", "n", "d", " ", "f", "o",
      "r", " ", "y", "o", "u", "r", " ", "q", "u", "e", "r", "y", ".">>
\* Found relevant notes:\n\n
FoundRelevantNotes ==
    <<"F", "o", "u", "n", "d", " ", "r", "e", "l", "e", "v", "a", "n",
      "t", " ", "n", "o", "t", "e", "s", ":", "\n", "\n">>
\* Error during search: 
ErrorDuringSearch ==
    <<"E", "r", "r", "o", "r", " ", "d", "u", "r", "i", "n", "g", " ",
      "s", "e", "a", "r", "c", "h", ":", " ">>
\* ...
Ellipsis == <<".", ".", ".">>

RECURSIVE Dec(_)
\* str(n) of a natural number
Dec(n) == IF n < 10 THEN <<DigitChar[n + 1]>> ELSE Dec(n \div 10) \o <<DigitChar[(n % 10) + 1]>>

\* f"{score:.2f}", the score counted in hundredths
Fmt2(score) ==
    LET a == IF score < 0 THEN 0 - score ELSE score
    IN  (IF score < 0 THEN <<"-">> ELSE << >>)
        \o Dec(a \div 100) \o <<".">> \o <<DigitChar[((a \div 10) % 10) + 1], DigitChar[(a % 10) + 1]>>

\* the embedding model either raises, or yields the cosine similarity of the
\* query to each note (in hundredths) and topk's choice among them
EmbedRaises(msg) == [raises |-> TRUE, message |-> msg]
EmbedReturns(sim, idx) == [raises |-> FALSE, similarities |-> sim, indices |-> idx]

\* the sequences of k distinct positions similarities.topk(k) may return:
\* values in descending order, none of the left-out values above the last
TopK(sim, k) ==
    {idx \in [1..k -> 1..Len(sim)] :
        /\ \A i, j \in 1..k : i < j => idx[i] # idx[j] /\ sim[idx[i]] >= sim[idx[j]]
        /\ \A m \in 1..Len(sim) :
               (\A i \in 1..k : idx[i] # m) => \A i \in 1..k : sim[m] <= sim[idx[i]]}

\* the mutant of BelowThreshold that rejects negative similarity only
BelowZero(score) == score < 0

\* top_results.values[0] < 0.3
BelowThreshold(score) == score < 30

\* the three lines rendered for one result (the pin emoji is written "#")
RenderResult(note, score) ==
    <<"#", " ", "I", "D", ":", " ">> \o Dec(note.id)
        \o <<" ", "(", "S", "c", "o", "r", "e", ":", " ">> \o Fmt2(score) \o <<")", "\n">>
        \o <<"C", "o", "n", "t", "e", "n", "t", ":", " ">> \o Prefix(note.content, 100)
        \o Ellipsis \o <<"\n">>
        \o <<"T", "a", "g", "s", ":", " ">> \o note.tags \o <<"\n", "\n">>

RECURSIVE RenderResults(_, _, _)
\* the loop over zip(top_results.indices, top_results.values), from entry i
RenderResults(notes_list, emb, i) ==
    IF i > Len(emb.indices) THEN << >>
    ELSE RenderResult(notes_list[emb.indices[i]], emb.similarities[emb.indices[i]])
            \o RenderResults(notes_list, emb, i + 1)

\* semantic_search(query, notes_list), emb the outcome of the embedding model
semantic_search(query, notes_list, emb) ==
    IF notes_list = << >> THEN NoNotesFound
    ELSE IF emb.raises THEN ErrorDuringSearch \o emb.message
    ELSE IF BelowThreshold(emb.similarities[emb.indices[1]]) THEN NoRelevantNotes
    ELSE FoundRelevantNotes \o RenderResults(notes_list, emb, 1)

\* ------------------------------------------------------------------------
\* llm.py: analyze_notes, transcribe_audio
\* ------------------------------------------------------------------------
\* No notes to analyze.
NoNotesToAnalyze ==
    <<"N", "o", " ", "n", "o", "t", "e", "s", " ", "t", "o", " ", "a",
      "n", "a", "l", "y", "z", "e", ".">>
\* Error during analysis: 
ErrorDuringAnalysis ==
    <<"E", "r", "r", "o", "r", " ", "d", "u", "r", "i", "n", "g", " ",
      "a", "n", "a", "l", "y", "s", "i", "s", ":", " ">>

\* analyze_notes(notes_text), llm the outcome of the model call it makes
analyze_notes(notes_text, llm) ==
    IF notes_text = << >> THEN NoNotesToAnalyze
    ELSE IF llm.raises THEN ErrorDuringAnalysis \o llm.message
    ELSE LET result == strip(llm.text)
         IN  IF Len(result) > 4000 THEN Prefix(result, 4000) \o Ellipsis ELSE result

\* the speech model either raises or yields the texts of the segments
WhisperRaises == [raises |-> TRUE]
WhisperReturns(segs) == [raises |-> FALSE, segments |-> segs]

\* transcribe_audio(file_path), whisper the outcome of the model call
transcribe_audio(whisper) ==
    IF whisper.raises THEN << >>
    ELSE strip(join(<<" ">>, whisper.segments))

\* ------------------------------------------------------------------------
\* db.py
\* ------------------------------------------------------------------------
\* init_db: table notes is created empty
init_db == << >>

\* the row INSERT INTO notes stores: id from AUTOINCREMENT (no row is ever
\* deleted, so the next id is the row count plus one), created_at from
\* DEFAULT CURRENT_TIMESTAMP
NewRow(user_id, content, summary, tags) ==
    [id |-> Len(notes) + 1, user_id |-> user_id, content |-> content,
     summary |-> summary, tags |-> tags, created_at |-> now]

\* sqlite3 binds str, int, bool and None; a list or a dict raises
CanBind(v) == v.type \in {"str", "int", "bool", "None"}

\* add_note: the table after the INSERT
add_note(user_id, content, summary, tags) ==
    Append(notes, NewRow(user_id, content, summary, tags))

\* ORDER BY created_at DESC; the order of rows of one created_at is not
\* determined by the query
OrderedByCreatedAt(rows) ==
    \A i, j \in 1..Len(rows) : i < j => rows[i].created_at >= rows[j].created_at

\* the mutant of Selected that leaves the WHERE clause out
SelectedAll(user_id) == 1..Len(notes)

\* WHERE user_id = ?: the positions of the rows selected
Selected(user_id) == {i \in 1..Len(notes) : notes[i].user_id = user_id}

\* get_notes(user_id): every list of rows the SELECT may return
get_notes(user_id) ==
    LET sel == Selected(user_id)
        n   == Cardinality(sel)
    IN  {rows \in {[i \in 1..n |-> notes[p[i]]] :
                      p \in {q \in [1..n -> sel] : \A i, j \in 1..n : i # j => q[i] # q[j]}} :
            OrderedByCreatedAt(rows)}

\* one line of get_all_notes_text (the timestamp is written as its number)
NoteLine(n) ==
    <<"I", "D", ":", " ">> \o Dec(n.id)
        \o <<" ", "|", " ", "D", "a", "t", "e", ":", " ">> \o Dec(n.created_at)
        \o <<" ", "|", " ", "C", "o", "n", "t", "e", "n", "t", ":", " ">> \o n.content
        \o <<" ", "|", " ", "T", "a", "g", "s", ":", " ">> \o n.tags

\* get_all_notes_text, on the rows get_notes returned
get_all_notes_text(rows) ==
    IF rows = << >> THEN << >>
    ELSE join(<<"\n">>, [i \in 1..Len(rows) |-> NoteLine(rows[i])])

\* ------------------------------------------------------------------------
\* Inputs of summarize_and_tag
\* ------------------------------------------------------------------------
\* a text of n characters, no two neighbours alike
TextOfLen(n) == [i \in 1..n |-> DigitChar[(i % 10) + 1]]
TextLens == {0, 1, 100, 101, MaxTextLen}
Texts == {TextOfLen(n) : n \in TextLens}

BraceAlphabet == {"{", "}", "a", " "}
\* every reply of at most MaxBraceLen characters over BraceAlphabet
BraceReplies == UNION {[1..n -> BraceAlphabet] : n \in 0..MaxBraceLen}

\* Sure! {"summary": "Budget meeting", "tags": ["budget","meeting","finance"]}
ReplyScenario ==
    <<"S", "u", "r", "e", "!", " ", "{", "\"", "s", "u", "m", "m", "a",
      "r", "y", "\"", ":", " ", "\"", "B", "u", "d", "g", "e", "t", " ",
      "m", "e", "e", "t", "i", "n", "g", "\"", ",", " ", "\"", "t", "a",
      "g", "s", "\"", ":", " ", "[", "\"", "b", "u", "d", "g", "e", "t",
      "\"", ",", "\"", "m", "e", "e", "t", "i", "n", "g", "\"", ",",
      "\"", "f", "i", "n", "a", "n", "c", "e", "\"", "]", "}">>
\*  {"summary":"s","tags":["a","b","c"]}\n
ReplyBare ==
    <<" ", "{", "\"", "s", "u", "m", "m", "a", "r", "y", "\"", ":", "\"",
      "s", "\"", ",", "\"", "t", "a", "g", "s", "\"", ":", "[", "\"",
      "a", "\"", ",", "\"", "b", "\"", ",", "\"", "c", "\"", "]", "}",
      "\n">>
\* {"summary":"s","tags":["a"]} done
ReplyTrailingProse ==
    <<"{", "\"", "s", "u", "m", "m", "a", "r", "y", "\"", ":", "\"", "s",
      "\"", ",", "\"", "t", "a", "g", "s", "\"", ":", "[", "\"", "a",
      "\"", "]", "}", " ", "d", "o", "n", "e">>
\* {"summary":"s"} {"tags":["a"]}
ReplyTwoFragments ==
    <<"{", "\"", "s", "u", "m", "m", "a", "r", "y", "\"", ":", "\"", "s",
      "\"", "}", " ", "{", "\"", "t", "a", "g", "s", "\"", ":", "[",
      "\"", "a", "\"", "]", "}">>
\* {"summary":"s","tags":[]} :}
ReplyTrailingBrace ==
    <<"{", "\"", "s", "u", "m", "m", "a", "r", "y", "\"", ":", "\"", "s",
      "\"", ",", "\"", "t", "a", "g", "s", "\"", ":", "[", "]", "}", " ",
      ":", "}">>
\* { {"summary":"s","tags":[]}
ReplyLeadingBrace ==
    <<"{", " ", "{", "\"", "s", "u", "m", "m", "a", "r", "y", "\"", ":",
      "\"", "s", "\"", ",", "\"", "t", "a", "g", "s", "\"", ":", "[",
      "]", "}">>
\* {}
ReplyEmptyObject == <<"{", "}">>
\* {"summary":"s","tags":["a","b","c","d"]}
ReplyFourTags ==
    <<"{", "\"", "s", "u", "m", "m", "a", "r", "y", "\"", ":", "\"", "s",
      "\"", ",", "\"", "t", "a", "g", "s", "\"", ":", "[", "\"", "a",
      "\"", ",", "\"", "b", "\"", ",", "\"", "c", "\"", ",", "\"", "d",
      "\"", "]", "}">>
\* {"summary":"s","tags":[1,2]}
ReplyIntTags ==
    <<"{", "\"", "s", "u", "m", "m", "a", "r", "y", "\"", ":", "\"", "s",
      "\"", ",", "\"", "t", "a", "g", "s", "\"", ":", "[", "1", ",", "2",
      "]", "}">>
\* {"summary":"s","tags":null}
ReplyNullTags ==
    <<"{", "\"", "s", "u", "m", "m", "a", "r", "y", "\"", ":", "\"", "s",
      "\"", ",", "\"", "t", "a", "g", "s", "\"", ":", "n", "u", "l", "l",
      "}">>
\* {"summary":"s","tags":"ab"}
ReplyStringTags ==
    <<"{", "\"", "s", "u", "m", "m", "a", "r", "y", "\"", ":", "\"", "s",
      "\"", ",", "\"", "t", "a", "g", "s", "\"", ":", "\"", "a", "b",
      "\"", "}">>
\* {"summary":null,"tags":["a"]}
ReplyNullSummary ==
    <<"{", "\"", "s", "u", "m", "m", "a", "r", "y", "\"", ":", "n", "u",
      "l", "l", ",", "\"", "t", "a", "g", "s", "\"", ":", "[", "\"", "a",
      "\"", "]", "}">>
\* {"summary":{"s":1},"tags":["a"]}
ReplyNestedSummary ==
    <<"{", "\"", "s", "u", "m", "m", "a", "r", "y", "\"", ":", "{", "\"",
      "s", "\"", ":", "1", "}", ",", "\"", "t", "a", "g", "s", "\"", ":",
      "[", "\"", "a", "\"", "]", "}">>
\* {"summary":"a}","tags":[]}
ReplyBraceInString ==
    <<"{", "\"", "s", "u", "m", "m", "a", "r", "y", "\"", ":", "\"", "a",
      "}", "\"", ",", "\"", "t", "a", "g", "s", "\"", ":", "[", "]", "}">>
\* I cannot do that.
ReplyNoBraces ==
    <<"I", " ", "c", "a", "n", "n", "o", "t", " ", "d", "o", " ", "t",
      "h", "a", "t", ".">>
\* {"summary":"s",}
ReplyBadJson ==
    <<"{", "\"", "s", "u", "m", "m", "a", "r", "y", "\"", ":", "\"", "s",
      "\"", ",", "}">>
\* {"tags":["a"],"tags":["b"],"summary":"s"}
ReplyDuplicateKey ==
    <<"{", "\"", "t", "a", "g", "s", "\"", ":", "[", "\"", "a", "\"",
      "]", ",", "\"", "t", "a", "g", "s", "\"", ":", "[", "\"", "b",
      "\"", "]", ",", "\"", "s", "u", "m", "m", "a", "r", "y", "\"", ":",
      "\"", "s", "\"", "}">>
\* {"summary": true, "tags": [false, -10, 0]}
ReplyLiterals ==
    <<"{", "\"", "s", "u", "m", "m", "a", "r", "y", "\"", ":", " ", "t",
      "r", "u", "e", ",", " ", "\"", "t", "a", "g", "s", "\"", ":", " ",
      "[", "f", "a", "l", "s", "e", ",", " ", "-", "1", "0", ",", " ",
      "0", "]", "}">>

JsonReplies ==
    {ReplyScenario, ReplyBare, ReplyTrailingProse, ReplyTwoFragments,
     ReplyTrailingBrace, ReplyLeadingBrace, ReplyEmptyObject, ReplyFourTags,
     ReplyIntTags, ReplyNullTags, ReplyStringTags, ReplyNullSummary,
     ReplyNestedSummary, ReplyBraceInString, ReplyNoBraces, ReplyBadJson,
     ReplyDuplicateKey, ReplyLiterals}

LlmOutcomes == {LlmRaises(Boom)} \cup {LlmReturns(s) : s \in BraceReplies \cup JsonReplies}

\* ------------------------------------------------------------------------
\* Inputs of analyze_notes and semantic_search
\* ------------------------------------------------------------------------
\* length of the longest model reply and of the longest error message
MaxReplyLen == 4100
\* most notes handed to semantic_search
MaxCandidates == 4

Spaces(n) == [i \in 1..n |-> " "]
\* a reply of n characters between lead and trail spaces
Padded(lead, n, trail) == Spaces(lead) \o TextOfLen(n) \o Spaces(trail)

AnalysisReplyLens == {0, 1, 3999, 4000, 4001, MaxReplyLen}
AnalysisErrorLens == {0, 1, 3977, 3980, 3981, MaxReplyLen}
AnalysisOutcomes ==
    {LlmRaises(TextOfLen(n)) : n \in AnalysisErrorLens}
        \cup {LlmReturns(Padded(l, n, t)) : l \in 0..1, n \in AnalysisReplyLens, t \in 0..1}

\* cosine similarities, in hundredths
ScoreValues == {0 - 100, 29, 30, 100}

\* the i-th note handed to semantic_search; the first is cut by content[:100]
Candidate(i) ==
    [id |-> i, user_id |-> 1, content |-> TextOfLen(IF i = 1 THEN 101 ELSE i),
     summary |-> PyStr(<<"s">>), tags |-> <<"a", ",", " ", "b">>, created_at |-> 0]

Candidates(n) == [i \in 1..n |-> Candidate(i)]

\* what the embedding model may do on n notes
EmbedOutcomes(n) ==
    {EmbedRaises(Boom)}
        \cup (IF n = 0 THEN {}
              ELSE UNION {{EmbedReturns(sim, idx) : idx \in TopK(sim, Min(3, n))} :
                              sim \in [1..n -> ScoreValues]})

\* ------------------------------------------------------------------------
\* main.py: the updates and their handlers
\* ------------------------------------------------------------------------
\* updates delivered in one run
MaxUpdates == 3
\* last value of the store's clock
MaxTime == 1

Users == {1, 2}

\* No summary
NoSummary == <<"N", "o", " ", "s", "u", "m", "m", "a", "r", "y">>
\* the separator of ", ".join
CommaSpace == <<",", " ">>

\* no update has arrived yet. rows_before is the row count when the update
\* arrived, note_id what add_note returned (the handlers drop it), enriched
\* whether summarize_and_tag was called
Idle ==
    [handler |-> "none", pc |-> "idle", user_id |-> 0, text |-> Unbound,
     query |-> Unbound, result |-> Unbound, summary |-> Unbound,
     tags |-> Unbound, notes |-> Unbound, notes_text |-> Unbound,
     sent |-> << >>, error |-> "none", enriched |-> FALSE, note_id |-> 0,
     rows_before |-> 0]

InitSystem ==
    /\ notes = init_db
    /\ now = 0
    /\ req = Idle
    /\ delivered = 0

\* a message on its way to the user: reply_text or edit_text, the fixed
\* part of its text, and the values formatted into it
Message(via, msg, values) == [via |-> via, msg |-> msg, values |-> values]

SentAnd(m) == Append(req.sent, m)

\* the handler raises: the application calls error_handler next
Raise(kind) == [req EXCEPT !.pc = "error_handler", !.error = kind]

\* ---- what the transport and the models may do ----
\* message.text of a text update; None for any other kind of message
MessageTexts == {<<"v", " ", "w">>}
\* context.args of /search
SearchArgs == {<< >>, <<<<"q">>, <<"r">>>>}

SysLlmOutcomes ==
    {LlmRaises(Boom), LlmReturns(ReplyBare), LlmReturns(ReplyEmptyObject),
     LlmReturns(ReplyIntTags), LlmReturns(ReplyNestedSummary)}

SysAnalysisOutcomes == {LlmRaises(Boom), LlmReturns(<<" ", "o", "k">>)}

SysWhisperOutcomes ==
    {WhisperRaises, WhisperReturns(<<<<" ">>>>),
     WhisperReturns(<<<<" ", "v">>, <<"w", " ">>>>)}

SysScoreValues == {29, 30}

SysEmbedOutcomes(n) ==
    {EmbedRaises(Boom)}
        \cup (IF n = 0 THEN {}
              ELSE UNION {{EmbedReturns(sim, idx) : idx \in TopK(sim, Min(3, n))} :
                              sim \in [1..n -> SysScoreValues]})

\* ---- the handlers registered at main.py:148-155 ----
\* The application is built at main.py:146 without concurrent updates and
\* every handler is registered blocking, so run_polling hands an update to
\* its handler only when the handler of the update before it has returned
\* (and error_handler, if it raised, has run).
CanDeliver ==
    /\ req.pc \in {"idle", "done"}
    /\ delivered < MaxUpdates

\* the update handed to a handler, its local variables unassigned
Dispatch(handler, user_id) ==
    [Idle EXCEPT !.handler = handler, !.pc = "start", !.user_id = user_id,
                 !.rows_before = Len(notes)]

\* a text message that is no command: MessageHandler(TEXT & ~COMMAND)
DeliverText ==
    /\ CanDeliver
    /\ \E u \in Users, t \in MessageTexts :
           req' = [Dispatch("handle_message", u) EXCEPT !.text = PyStr(t)]
    /\ delivered' = delivered + 1
    /\ UNCHANGED <<notes, now, call, ret>>

\* a voice message: MessageHandler(VOICE)
DeliverVoice ==
    /\ CanDeliver
    /\ \E u \in Users :
           req' = Dispatch("handle_voice", u)
    /\ delivered' = delivered + 1
    /\ UNCHANGED <<notes, now, call, ret>>

\* /search: CommandHandler("search")
DeliverSearch ==
    /\ CanDeliver
    /\ \E u \in Users, a \in SearchArgs :
           req' = [Dispatch("search_command", u) EXCEPT !.query = PyStr(join(<<" ">>, a))]
    /\ delivered' = delivered + 1
    /\ UNCHANGED <<notes, now, call, ret>>

\* /analyze: CommandHandler("analyze")
DeliverAnalyze ==
    /\ CanDeliver
    /\ \E u \in Users :
           req' = Dispatch("analyze_command", u)
    /\ delivered' = delivered + 1
    /\ UNCHANGED <<notes, now, call, ret>>

\* ", ".join(x) accepts a list of str, a str (its characters) and a dict
\* (its keys); anything else is a TypeError
CanJoin(x) ==
    \/ x.type \in {"str", "dict"}
    \/ x.type = "list" /\ \A i \in 1..Len(x.elems) : x.elems[i].type = "str"

\* the strings ", ".join(x) joins
JoinParts(x) ==
    IF x.type = "list" THEN [i \in 1..Len(x.elems) |-> x.elems[i].chars]
    ELSE IF x.type = "str" THEN [i \in 1..Len(x.chars) |-> <<x.chars[i]>>]
    ELSE x.keys

\* result = await summarize_and_tag(text); summary = ...; tags = ...
\* (main.py:57-59 and 99-101)
Summarize(llm) ==
    LET result  == summarize_and_tag(req.text.chars, llm)
        summary == DictGet(result, kSummary, PyStr(NoSummary))
        tags    == DictGet(result, kTags, PyList(<< >>))
        called  == [req EXCEPT !.result = result, !.summary = summary,
                               !.enriched = TRUE]
    IN  IF CanJoin(tags)
        THEN [called EXCEPT !.tags = PyStr(join(CommaSpace, JoinParts(tags))),
                            !.pc = "add_note"]
        ELSE [called EXCEPT !.pc = "error_handler", !.error = "TypeError"]

\* db.add_note(user_id, text, summary, tags) (main.py:62 and 104); available
\* tells whether the store can be written
AddNote(available) ==
    IF ~available
    THEN notes' = notes /\ req' = Raise("OperationalError")
    ELSE IF ~CanBind(req.summary)
    THEN notes' = notes /\ req' = Raise("ProgrammingError")
    ELSE /\ notes' = add_note(req.user_id, req.text.chars, req.summary,
                              req.tags.chars)
         /\ req' = [req EXCEPT !.note_id = Len(notes) + 1, !.pc = "reply"]

NoteSaved(via) ==
    Message(via, "Note saved!", <<req.summary, req.tags>>)

\* ---- handle_message ----
\* main.py:47-54
HandleMessage_Start ==
    /\ req.handler = "handle_message" /\ req.pc = "start"
    /\ req' = IF req.text = PyNone \/ req.text.chars = << >>
              THEN [req EXCEPT !.pc = "done"]
              ELSE [req EXCEPT !.pc = "summarize",
                       !.sent = SentAnd(Message("reply_text", "Processing note...", << >>))]
    /\ UNCHANGED <<notes, now, delivered, call, ret>>

\* main.py:57-59
HandleMessage_Summarize ==
    /\ req.handler = "handle_message" /\ req.pc = "summarize"
    /\ \E llm \in SysLlmOutcomes : req' = Summarize(llm)
    /\ UNCHANGED <<notes, now, delivered, call, ret>>

\* main.py:62
HandleMessage_AddNote ==
    /\ req.handler = "handle_message" /\ req.pc = "add_note"
    /\ \E available \in BOOLEAN : AddNote(available)
    /\ UNCHANGED <<now, delivered, call, ret>>

\* main.py:64-68
HandleMessage_Reply ==
    /\ req.handler = "handle_message" /\ req.pc = "reply"
    /\ req' = [req EXCEPT !.pc = "done", !.sent = SentAnd(NoteSaved("edit_text"))]
    /\ UNCHANGED <<notes, now, delivered, call, ret>>

\* ---- handle_voice ----
\* main.py:71-74
HandleVoice_Start ==
    /\ req.handler = "handle_voice" /\ req.pc = "start"
    /\ req' = [req EXCEPT !.pc = "download",
                  !.sent = SentAnd(Message("reply_text", "Processing voice message...", << >>))]
    /\ UNCHANGED <<notes, now, delivered, call, ret>>

\* main.py:77-86; the download may fail in the transport
HandleVoice_Download ==
    /\ req.handler = "handle_voice" /\ req.pc = "download"
    /\ \E downloaded \in BOOLEAN :
           req' = IF downloaded
                  THEN [req EXCEPT !.pc = "transcribe",
                           !.sent = SentAnd(Message("edit_text", "Transcribing...", << >>))]
                  ELSE Raise("TransportError")
    /\ UNCHANGED <<notes, now, delivered, call, ret>>

\* the mutant of HandleVoice_Transcribe that lacks the return at main.py:94
HandleVoice_TranscribeNoAbort ==
    /\ req.handler = "handle_voice" /\ req.pc = "transcribe"
    /\ \E whisper \in SysWhisperOutcomes :
           LET text == transcribe_audio(whisper)
           IN  req' = [req EXCEPT !.text = PyStr(text), !.pc = "summarize",
                          !.sent = SentAnd(Message("edit_text", "Transcribed", <<PyStr(text)>>))]
    /\ UNCHANGED <<notes, now, delivered, call, ret>>

\* main.py:87-96
HandleVoice_Transcribe ==
    /\ req.handler = "handle_voice" /\ req.pc = "transcribe"
    /\ \E whisper \in SysWhisperOutcomes :
           LET text == transcribe_audio(whisper)
           IN  req' = IF text = << >>
                      THEN [req EXCEPT !.text = PyStr(text), !.pc = "done",
                               !.sent = SentAnd(Message("edit_text", "Could not transcribe audio.", << >>))]
                      ELSE [req EXCEPT !.text = PyStr(text), !.pc = "summarize",
                               !.sent = SentAnd(Message("edit_text", "Transcribed", <<PyStr(text)>>))]
    /\ UNCHANGED <<notes, now, delivered, call, ret>>

\* main.py:99-101
HandleVoice_Summarize ==
    /\ req.handler = "handle_voice" /\ req.pc = "summarize"
    /\ \E llm \in SysLlmOutcomes : req' = Summarize(llm)
    /\ UNCHANGED <<notes, now, delivered, call, ret>>

\* main.py:104
HandleVoice_AddNote ==
    /\ req.handler = "handle_voice" /\ req.pc = "add_note"
    /\ \E available \in BOOLEAN : AddNote(available)
    /\ UNCHANGED <<now, delivered, call, ret>>

\* main.py:106-110
HandleVoice_Reply ==
    /\ req.handler = "handle_voice" /\ req.pc = "reply"
    /\ req' = [req EXCEPT !.pc = "done", !.sent = SentAnd(NoteSaved("reply_text"))]
    /\ UNCHANGED <<notes, now, delivered, call, ret>>

\* ---- search_command ----
\* main.py:113-120
Search_Start ==
    /\ req.handler = "search_command" /\ req.pc = "start"
    /\ req' = IF req.query.chars = << >>
              THEN [req EXCEPT !.pc = "done",
                       !.sent = SentAnd(Message("reply_text", "Usage: /search <query>", << >>))]
              ELSE [req EXCEPT !.pc = "get_notes",
                       !.sent = SentAnd(Message("reply_text", "Searching...", << >>))]
    /\ UNCHANGED <<notes, now, delivered, call, ret>>

\* main.py:122-123
Search_GetNotes ==
    /\ req.handler = "search_command" /\ req.pc = "get_notes"
    /\ \E available \in BOOLEAN :
           IF available
           THEN \E rows \in get_notes(req.user_id) :
                \E emb \in SysEmbedOutcomes(Len(rows)) :
                    req' = [req EXCEPT !.notes = PyList(rows), !.pc = "reply",
                               !.result = PyStr(semantic_search(req.query.chars, rows, emb))]
           ELSE req' = Raise("OperationalError")
    /\ UNCHANGED <<notes, now, delivered, call, ret>>

\* main.py:125
Search_Reply ==
    /\ req.handler = "search_command" /\ req.pc = "reply"
    /\ req' = [req EXCEPT !.pc = "done",
                  !.sent = SentAnd(Message("edit_text", "", <<req.result>>))]
    /\ UNCHANGED <<notes, now, delivered, call, ret>>

\* ---- analyze_command ----
\* main.py:128-129
Analyze_Start ==
    /\ req.handler = "analyze_command" /\ req.pc = "start"
    /\ req' = [req EXCEPT !.pc = "get_notes",
                  !.sent = SentAnd(Message("reply_text", "Analyzing your notes...", << >>))]
    /\ UNCHANGED <<notes, now, delivered, call, ret>>

\* main.py:131-132
Analyze_GetNotes ==
    /\ req.handler = "analyze_command" /\ req.pc = "get_notes"
    /\ \E available \in BOOLEAN :
           IF available
           THEN \E rows \in get_notes(req.user_id) :
                \E llm \in SysAnalysisOutcomes :
                    LET notes_text == get_all_notes_text(rows)
                    IN  req' = [req EXCEPT !.notes_text = PyStr(notes_text),
                                   !.pc = "reply",
                                   !.result = PyStr(analyze_notes(notes_text, llm))]
           ELSE req' = Raise("OperationalError")
    /\ UNCHANGED <<notes, now, delivered, call, ret>>

\* main.py:134
Analyze_Reply ==
    /\ req.handler = "analyze_command" /\ req.pc = "reply"
    /\ req' = [req EXCEPT !.pc = "done",
                  !.sent = SentAnd(Message("edit_text", "", <<req.result>>))]
    /\ UNCHANGED <<notes, now, delivered, call, ret>>

\* ---- error_handler (main.py:136-139) ----
error_handler ==
    /\ req.pc = "error_handler"
    /\ req' = [req EXCEPT !.pc = "done",
                  !.sent = SentAnd(Message("reply_text",
                      "An error occurred while processing your request.", << >>))]
    /\ UNCHANGED <<notes, now, delivered, call, ret>>

\* the store's clock moves on
Tick ==
    /\ now < MaxTime
    /\ now' = now + 1
    /\ UNCHANGED <<notes, req, delivered, call, ret>>

Init ==
    /\ InitSystem
    /\ call = NoCall
    /\ ret = Unbound

Next ==
    \/ Tick
    \/ DeliverText \/ DeliverVoice \/ DeliverSearch \/ DeliverAnalyze
    \/ HandleMessage_Start \/ HandleMessage_Summarize
    \/ HandleMessage_AddNote \/ HandleMessage_Reply
    \/ HandleVoice_Start \/ HandleVoice_Download \/ HandleVoice_Transcribe
    \/ HandleVoice_Summarize \/ HandleVoice_AddNote \/ HandleVoice_Reply
    \/ Search_Start \/ Search_GetNotes \/ Search_Reply
    \/ Analyze_Start \/ Analyze_GetNotes \/ Analyze_Reply
    \/ error_handler

Spec == Init /\ [][Next]_vars

\* ------------------------------------------------------------------------
\* Specification of summarize_and_tag alone
\* ------------------------------------------------------------------------
InitEnrich ==
    /\ call \in {[fn |-> "summarize_and_tag", text |-> t, llm |-> o] :
                    t \in Texts, o \in LlmOutcomes}
    /\ ret = Unbound
    /\ InitSystem

CallSummarizeAndTag ==
    /\ call.fn = "summarize_and_tag"
    /\ ret = Unbound
    /\ ret' = summarize_and_tag(call.text, call.llm)
    /\ UNCHANGED <<call, notes, now, req, delivered>>

NextEnrich == CallSummarizeAndTag

SpecEnrich == InitEnrich /\ [][NextEnrich]_vars

Enriched == call.fn = "summarize_and_tag" /\ ret # Unbound

\* ------------------------------------------------------------------------
\* Specification of analyze_notes alone
\* ------------------------------------------------------------------------
InitAnalyze ==
    /\ call \in {[fn |-> "analyze_notes", notes_text |-> t, llm |-> o] :
                    t \in Texts, o \in AnalysisOutcomes}
    /\ ret = Unbound
    /\ InitSystem

CallAnalyzeNotes ==
    /\ call.fn = "analyze_notes"
    /\ ret = Unbound
    /\ ret' = PyStr(analyze_notes(call.notes_text, call.llm))
    /\ UNCHANGED <<call, notes, now, req, delivered>>

NextAnalyze == CallAnalyzeNotes

SpecAnalyze == InitAnalyze /\ [][NextAnalyze]_vars

Analyzed == call.fn = "analyze_notes" /\ ret # Unbound

\* ------------------------------------------------------------------------
\* Specification of semantic_search alone
\* ------------------------------------------------------------------------
InitSearch ==
    /\ call \in UNION {{[fn |-> "semantic_search", query |-> <<"q">>,
                         notes_list |-> Candidates(n), emb |-> e] :
                            e \in EmbedOutcomes(n)} : n \in 0..MaxCandidates}
    /\ ret = Unbound
    /\ InitSystem

CallSemanticSearch ==
    /\ call.fn = "semantic_search"
    /\ ret = Unbound
    /\ ret' = PyStr(semantic_search(call.query, call.notes_list, call.emb))
    /\ UNCHANGED <<call, notes, now, req, delivered>>

NextSearch == CallSemanticSearch

SpecSearch == InitSearch /\ [][NextSearch]_vars

Searched == call.fn = "semantic_search" /\ ret # Unbound

\* ------------------------------------------------------------------------
\* Claims about summarize_and_tag (checked under SpecEnrich)
\* ------------------------------------------------------------------------
\* the first 100 characters of a text, position by position
First100(text) == [i \in 1..Min(100, Len(text)) |-> text[i]]

\* the degraded result {summary: input[:100], tags: []}
Degraded(text) ==
    [type |-> "dict", keys |-> <<kSummary, kTags>>,
     map |-> <<[type |-> "str", chars |-> First100(text)],
               [type |-> "list", elems |-> << >>]>>]

\* the result has a summary field and a tags field that is a sequence of
\* at most 3 labels
WellFormedResult(r) ==
    /\ r.type = "dict"
    /\ DictHas(r, kSummary)
    /\ DictHas(r, kTags)
    /\ DictGet(r, kTags, PyNone).type = "list"
    /\ Len(DictGet(r, kTags, PyNone).elems) <= 3

\* C1: for every input text and every model outcome (a raise, or any reply),
\* summarize_and_tag returns a result with a summary field and a tags field
\* that is a sequence of at most 3 labels.
C1_ResultHasSummaryAndAtMost3Tags == Enriched => WellFormedResult(ret)

\* the reply holds an opening brace followed later by a closing brace
HasBracePair(s) ==
    \E i \in 1..Len(s) : \E j \in (i+1)..Len(s) : s[i] = "{" /\ s[j] = "}"

\* C9: when the model reply contains no {...} fragment (no opening brace
\* followed later by a closing brace), summarize_and_tag returns exactly
\* {summary: first 100 characters of the input, tags: empty sequence}.
C9_NoFragmentGivesDegraded ==
    (Enriched /\ ~call.llm.raises /\ ~HasBracePair(call.llm.text))
        => ret = Degraded(call.text)

\* C9 witness: a reply whose only closing brace precedes its only opening
\* brace, on a text longer than 100 characters, has been answered.
C9_Witness ==
    /\ Enriched
    /\ ~call.llm.raises
    /\ Contains(call.llm.text, "{")
    /\ Contains(call.llm.text, "}")
    /\ ~HasBracePair(call.llm.text)
    /\ Len(call.text) > 100

\* the spans s[i..j] of the reply that are well-formed structured fragments
Fragments(s) ==
    {p \in {i \in 1..Len(s) : s[i] = "{"} \X {j \in 1..Len(s) : s[j] = "}"} :
        p[1] < p[2] /\ json_loads(SubSeq(s, p[1], p[2])).ok}

\* the first of them: the leftmost start, and the shortest from there
FirstFragment(s) ==
    LET F == Fragments(s)
        p == CHOOSE p \in F : \A q \in F :
                 p[1] < q[1] \/ (p[1] = q[1] /\ p[2] <= q[2])
    IN  SubSeq(s, p[1], p[2])

\* C10: when the model reply contains a well-formed structured fragment,
\* summarize_and_tag returns the parse of the first such fragment, whatever
\* text surrounds it.
C10_FirstFragmentIsParsed ==
    (Enriched /\ ~call.llm.raises /\ Fragments(call.llm.text) # {})
        => ret = json_loads(FirstFragment(call.llm.text)).val

\* ------------------------------------------------------------------------
\* Claims about analyze_notes (SpecAnalyze) and semantic_search (SpecSearch)
\* ------------------------------------------------------------------------
\* C4: for every input text and every model outcome (a reply of any length,
\* or a raised failure with an error message of any length), the string
\* analyze_notes returns has at most 4003 characters.
C4_AnalysisAtMost4003 == Analyzed => Len(ret.chars) <= 4003

\* C8: for every non-empty candidate sequence and every assignment of
\* similarity scores, if the highest score is below 0.3 then semantic_search
\* returns the "no relevant notes" message and renders no candidate.
C8_LowTopScoreGivesNoRelevant ==
    (/\ Searched
     /\ call.notes_list # << >>
     /\ ~call.emb.raises
     /\ \A i \in 1..Len(call.notes_list) : call.emb.similarities[i] < 30)
        => ret = [type |-> "str", chars |-> NoRelevantNotes]

\* C8 witness: more than three candidates, the best of them at 0.29, have
\* been searched.
C8_Witness ==
    /\ Searched
    /\ Len(call.notes_list) > 3
    /\ ~call.emb.raises
    /\ \A i \in 1..Len(call.notes_list) : call.emb.similarities[i] < 30
    /\ \E i \in 1..Len(call.notes_list) : call.emb.similarities[i] = 29

\* ------------------------------------------------------------------------
\* Claims about the store and the handlers (checked under Spec)
\* ------------------------------------------------------------------------
Generic == "An error occurred while processing your request."
GenericSent == \E i \in 1..Len(req.sent) : req.sent[i].msg = Generic

\* C2: a get_notes(u) that directly follows add_note(u, ...) returns a list
\* whose first element is the note just added, and get_notes lists a user's
\* notes newest-first, also when several were added within one tick of the
\* store's clock; for a user without notes it returns the empty list.
C2_ListIsNewestFirst ==
    /\ \A u \in Users : \A rows \in get_notes(u) :
           \A i, j \in 1..Len(rows) : i < j => rows[i].id > rows[j].id
    /\ \A u \in Users : Selected(u) = {} => get_notes(u) = {<< >>}
    /\ (req.note_id # 0 /\ req.pc \in {"reply", "done"}) =>
           \A rows \in get_notes(req.user_id) : rows[1].id = req.note_id

\* C3: every request handed to a handler ends with at least one text sent
\* to the user, whatever the outcome of each step, and only failures of the
\* store and of the transport produce the generic "An error occurred" text.
C3_AnsweredGenericOnlyForStoreOrTransport ==
    req.pc = "done" =>
        /\ Len(req.sent) >= 1
        /\ GenericSent =>
               req.error \in {"OperationalError", "ProgrammingError", "TransportError"}

\* C5: for every non-empty text message of user u and every model outcome,
\* the text-note pipeline ends with exactly one new note stored, of user u
\* and with the message text as content, unless the store itself fails.
C5_TextNoteStoredOnce ==
    (/\ req.handler = "handle_message"
     /\ req.pc = "done"
     /\ req.error \notin {"OperationalError", "ProgrammingError"})
        => /\ Len(notes) = req.rows_before + 1
           /\ notes[Len(notes)].user_id = req.user_id
           /\ notes[Len(notes)].content = req.text.chars

\* C6: in the voice pipeline an empty transcript (every failure of the
\* transcription included) ends the handler with a failure shown to the
\* user, summarize_and_tag not called and no note added; with a non-empty
\* transcript summarize_and_tag runs before the insert and the content
\* stored is the transcript.
C6_VoiceAbortsOnEmptyTranscript ==
    req.handler = "handle_voice" =>
        /\ req.text = Unbound => ~req.enriched /\ Len(notes) = req.rows_before
        /\ (req.text # Unbound /\ req.text.chars = << >>) =>
               /\ req.pc = "done"
               /\ req.error = "none"
               /\ ~req.enriched
               /\ Len(notes) = req.rows_before
               /\ req.sent[Len(req.sent)].msg = "Could not transcribe audio."
        /\ (req.text # Unbound /\ req.text.chars # << >>) =>
               /\ req.pc \in {"add_note", "reply"} => req.enriched
               /\ Len(notes) # req.rows_before =>
                      /\ req.enriched
                      /\ Len(notes) = req.rows_before + 1
                      /\ notes[Len(notes)].content = req.text.chars
                      /\ notes[Len(notes)].summary = req.summary

\* C6 witness: a voice update whose transcript came out empty has ended,
\* after an earlier update stored a note.
C6_Witness ==
    /\ req.handler = "handle_voice"
    /\ req.pc = "done"
    /\ req.text # Unbound
    /\ req.text.chars = << >>
    /\ req.rows_before > 0

\* every list of distinct rows of user u in the table
OwnLists(u) ==
    LET own == {notes[i] : i \in Selected(u)}
    IN  UNION {{f \in [1..k -> own] : \A i, j \in 1..k : i # j => f[i] # f[j]} :
                   k \in 0..Cardinality(own)}

\* C7: every note get_notes(u) returns and every line get_all_notes_text
\* renders belongs to a note of user u; a search or analyze request of
\* user u is never given a note another user stored.
C7_NoCrossUserRead ==
    /\ \A u \in Users : \A rows \in get_notes(u) :
           \A i \in 1..Len(rows) : rows[i].user_id = u
    /\ req.notes # Unbound =>
           \A i \in 1..Len(req.notes.elems) :
               /\ req.notes.elems[i].user_id = req.user_id
               /\ \E k \in 1..Len(notes) : notes[k] = req.notes.elems[i]
    /\ req.notes_text # Unbound =>
           \E rows \in OwnLists(req.user_id) :
               req.notes_text.chars =
                   (IF rows = << >> THEN << >>
                    ELSE join(<<"\n">>, [i \in 1..Len(rows) |-> NoteLine(rows[i])]))

\* C7 witness: a search was handed notes of its user while the table held
\* a note of another user.
C7_Witness ==
    /\ req.handler = "search_command"
    /\ req.notes # Unbound
    /\ Len(req.notes.elems) >= 1
    /\ \E i \in 1..req.rows_before : notes[i].user_id # req.user_id

====
